---- MODULE Spec2Model ----
(***************************************************************************)
(* Utility Bill Analyzer (src/app.py): the upload run of main() and the     *)
(* pipeline it drives: extract_text_from_pdf, extract_data, clean_data,     *)
(* create_dataframe, and the derived columns of plot_blended_rate and       *)
(* plot_usage_anomaly.                                                      *)
(*                                                                         *)
(* Text is modelled as sequences of one-character strings.  A document's    *)
(* text is abstracted to what each pattern of FIELD_PATTERNS captures in    *)
(* it (re.search's groups), every capture being a string of the pattern's   *)
(* language.  A Python value is a tagged record: None, a str, a float (an   *)
(* exact fraction num/den in lowest terms), a date.                         *)
(***************************************************************************)
EXTENDS Integers, Sequences, FiniteSets, TLC

\* ------------------------------------------------------------------ bounds

\* Longest numeric capture enumerated for the coercion check.
MaxCaptureLen == 2

\* Most files of one upload run drawn from the mixed bill pool.
MaxFiles == 3

\* Most files of one upload run drawn from the single-meter pool.
MaxSeries == 6

\* ------------------------------------------------------------------ values

None == [kind |-> "None"]

Str(s) == [kind |-> "str", s |-> s]

RECURSIVE GCD(_, _)
GCD(a, b) == IF b = 0 THEN a ELSE GCD(b, a % b)

LCM(a, b) == (a * b) \div GCD(a, b)

\* A float, as the exact fraction n/d (d > 0) in lowest terms.
Float(n, d) == [kind |-> "float", num |-> n \div GCD(n, d), den |-> d \div GCD(n, d)]

Inf == [kind |-> "inf"]

Date(y, m, d) == [kind |-> "date", y |-> y, m |-> m, d |-> d]

IsStr(v) == v.kind = "str"

IsFloat(v) == v.kind = "float"

\* pandas isna / notna on one cell: None and NaN are the one absent value.
isna(v) == v.kind = "None"

notna(v) == ~isna(v)

\* Python truthiness of an Optional[str] or float cell (`if cleaned.get(f)`).
Truthy(v) ==
    CASE v.kind = "None" -> FALSE
      [] v.kind = "str" -> v.s # <<>>
      [] v.kind = "float" -> v.num # 0
      [] OTHER -> TRUE

\* ------------------------------------------------------------------ text

Digits == {"0", "1", "2", "3", "4", "5", "6", "7", "8", "9"}

DigitVal ==
    "0" :> 0 @@ "1" :> 1 @@ "2" :> 2 @@ "3" :> 3 @@ "4" :> 4 @@
    "5" :> 5 @@ "6" :> 6 @@ "7" :> 7 @@ "8" :> 8 @@ "9" :> 9

AllDigits(s) == \A k \in DOMAIN s : s[k] \in Digits

RECURSIVE IntOf(_)
\* The integer a digit string denotes (0 for the empty string).
IntOf(s) ==
    IF s = <<>> THEN 0
    ELSE 10 * IntOf(SubSeq(s, 1, Len(s) - 1)) + DigitVal[s[Len(s)]]

RECURSIVE Pow10(_)
Pow10(k) == IF k = 0 THEN 1 ELSE 10 * Pow10(k - 1)

\* str.replace(",", "")
RemoveCommas(s) == SelectSeq(s, LAMBDA c : c # ",")

RECURSIVE LStrip(_)
LStrip(s) == IF s # <<>> /\ Head(s) = " " THEN LStrip(Tail(s)) ELSE s

RECURSIVE RStrip(_)
RStrip(s) ==
    IF s # <<>> /\ s[Len(s)] = " " THEN RStrip(SubSeq(s, 1, Len(s) - 1)) ELSE s

\* str.strip()
Strip(s) == RStrip(LStrip(s))

\* Position of the first occurrence of character c in s, 0 when there is none.
IndexOf(s, c) ==
    IF \E k \in DOMAIN s : s[k] = c
    THEN CHOOSE k \in DOMAIN s : s[k] = c /\ \A j \in 1..(k - 1) : s[j] # c
    ELSE 0

RECURSIVE Split(_, _)
\* str.split(c): the pieces between the occurrences of c.
Split(s, c) ==
    LET k == IndexOf(s, c)
    IN IF k = 0 THEN <<s>>
       ELSE <<SubSeq(s, 1, k - 1)>> \o Split(SubSeq(s, k + 1, Len(s)), c)

\* ------------------------------------------------------------------ parsing

\* float(s) accepts s: decimal digits with at most one point and at least one
\* digit (the only strings the numeric patterns can leave after comma removal
\* are digits and points).
ParsesAsFloat(s) ==
    /\ \A k \in DOMAIN s : s[k] \in Digits \cup {"."}
    /\ Cardinality({k \in DOMAIN s : s[k] = "."}) <= 1
    /\ \E k \in DOMAIN s : s[k] \in Digits

\* float(s) for a string float accepts: the decimal it denotes.
FloatOf(s) ==
    LET k == IndexOf(s, ".")
        ip == IF k = 0 THEN s ELSE SubSeq(s, 1, k - 1)
        fp == IF k = 0 THEN <<>> ELSE SubSeq(s, k + 1, Len(s))
    IN Float(IntOf(ip) * Pow10(Len(fp)) + IntOf(fp), Pow10(Len(fp)))

IsLeap(y) == (y % 4 = 0 /\ y % 100 # 0) \/ y % 400 = 0

DaysInMonth(y, m) ==
    IF m = 2 THEN (IF IsLeap(y) THEN 29 ELSE 28)
    ELSE IF m \in {4, 6, 9, 11} THEN 30 ELSE 31

\* datetime.strptime(s, "%m/%d/%Y") succeeds: %m is 1[0-2]|0[1-9]|[1-9], %d is
\* 3[01]|[12]\d|0[1-9]|[1-9], %Y is exactly four digits, and date() takes the
\* day only if the month has it.
StrptimeOk(s) ==
    LET p == Split(s, "/")
    IN /\ Len(p) = 3
       /\ \A k \in 1..3 : AllDigits(p[k])
       /\ Len(p[1]) \in {1, 2} /\ IntOf(p[1]) \in 1..12
       /\ Len(p[2]) \in {1, 2} /\ IntOf(p[2]) >= 1
       /\ Len(p[3]) = 4 /\ IntOf(p[3]) >= 1
       /\ IntOf(p[2]) <= DaysInMonth(IntOf(p[3]), IntOf(p[1]))

\* datetime.strptime(s, "%m/%d/%Y").date() when it succeeds.
StrptimeDate(s) ==
    LET p == Split(s, "/")
    IN Date(IntOf(p[3]), IntOf(p[1]), IntOf(p[2]))

\* -------------------------------------------------------------- extraction

FieldNames ==
    {"account_number", "service_address", "total_usage", "total_cost",
     "billing_period", "due_date", "energy_charge", "taxes", "fees"}

DecimalFields == {"total_usage", "total_cost", "energy_charge", "taxes", "fees"}

\* The columns plot_cost_breakdown stacks.
cost_cols == {"energy_charge", "taxes", "fees"}

\* The language of the numeric capture group ([\d,]+\.?\d*).
MatchesNumericPattern(s) ==
    \E a \in 1..Len(s) :
        /\ \A k \in 1..a : s[k] \in Digits \cup {","}
        /\ LET rest == SubSeq(s, a + 1, Len(s))
               tail == IF rest # <<>> /\ Head(rest) = "." THEN Tail(rest) ELSE rest
           IN AllDigits(tail)

\* The language of one side of the billing period (\d{1,2}/\d{1,2}/\d{2,4}).
MatchesDateToken(s) ==
    LET p == Split(s, "/")
    IN /\ Len(p) = 3
       /\ \A k \in 1..3 : AllDigits(p[k])
       /\ Len(p[1]) \in {1, 2} /\ Len(p[2]) \in {1, 2} /\ Len(p[3]) \in 2..4

\* The language of the billing_period capture group: token \s*-\s* token.
MatchesPeriodPattern(s) ==
    LET p == Split(s, "-")
    IN /\ Len(p) = 2
       /\ MatchesDateToken(RStrip(p[1]))
       /\ MatchesDateToken(LStrip(p[2]))

\* What re.search finds for one field: no match, or the groups of the first match.
NoMatch == [hit |-> FALSE, g1 |-> <<>>, g2 |-> <<>>]

Hit(g) == [hit |-> TRUE, g1 |-> g, g2 |-> <<>>]

UsageHit(g, unit) == [hit |-> TRUE, g1 |-> g, g2 |-> unit]

\* Python dict.get(k): None for a missing key.
Get(d, k) == IF k \in DOMAIN d THEN d[k] ELSE None

\* extract_data: one key per pattern, usage_unit only beside a matched usage.
extract_data(text) ==
    LET base ==
            [f \in FieldNames |->
                IF text.m[f].hit
                THEN LET value == Strip(text.m[f].g1)
                     IN IF f \in DecimalFields THEN Str(RemoveCommas(value))
                        ELSE Str(value)
                ELSE None]
    IN IF text.m["total_usage"].hit
       THEN base @@ ("usage_unit" :> Str(text.m["total_usage"].g2))
       ELSE base

\* The try/except around float() for one decimal field of clean_data.
CoerceDecimal(v) ==
    IF Truthy(v)
    THEN (IF IsStr(v) /\ ParsesAsFloat(v.s) THEN FloatOf(v.s) ELSE None)
    ELSE v

\* The billing_date clean_data derives from a truthy billing_period.
EndDateOf(period) ==
    LET parts == Split(period, "-")
    IN IF Len(parts) < 2 THEN None
       ELSE LET end_date == Strip(parts[2])
            IN IF StrptimeOk(end_date) THEN StrptimeDate(end_date) ELSE None

clean_data(data) ==
    LET cleaned ==
            [k \in DOMAIN data |->
                IF k \in DecimalFields THEN CoerceDecimal(data[k]) ELSE data[k]]
    IN IF Truthy(Get(cleaned, "billing_period"))
       THEN ("billing_date" :> EndDateOf(cleaned["billing_period"].s)) @@ cleaned
       ELSE cleaned

\* extract_text_from_pdf: the document's text, "" when reading it raises.
EmptyText == [empty |-> TRUE, m |-> [f \in FieldNames |-> NoMatch]]

\* A text with no field in it, such as an error message.
ErrorText == [empty |-> FALSE, m |-> [f \in FieldNames |-> NoMatch]]

\* extract_text_from_pdf handing back the error's text instead of "".
extract_text_unguarded(pdf_file) ==
    IF pdf_file.corrupt THEN ErrorText ELSE pdf_file.text

extract_text_from_pdf(pdf_file) ==
    IF pdf_file.corrupt THEN EmptyText ELSE pdf_file.text

\* --------------------------------------------------------------- dataframe

RECURSIVE KeysOf(_)
\* pd.DataFrame(data_list).columns: every key of every dict.
KeysOf(data_list) ==
    IF data_list = <<>> THEN {}
    ELSE DOMAIN Head(data_list) \cup KeysOf(Tail(data_list))

\* pd.DataFrame(data_list): one row per dict, a missing key is NaN.
DataFrame(data_list) ==
    [k \in DOMAIN data_list |->
        [c \in KeysOf(data_list) |-> Get(data_list[k], c)]]

Columns(df) == IF df = <<>> THEN {} ELSE DOMAIN df[1]

DateOrd(v) == v.y * 10000 + v.m * 100 + v.d

\* x placed into the key-ordered sequence t at any place that keeps the order.
Insertions(x, t, key) ==
    {SubSeq(t, 1, p) \o <<x>> \o SubSeq(t, p + 1, Len(t)) :
        p \in {q \in 0..Len(t) :
                /\ \A j \in 1..q : DateOrd(t[j][key]) <= DateOrd(x[key])
                /\ \A j \in (q + 1)..Len(t) : DateOrd(x[key]) <= DateOrd(t[j][key])}}

RECURSIVE KeyOrderings(_, _)
\* Every arrangement of rows in ascending order of key.  numpy's quicksort,
\* the default kind of sort_values, promises no order among equal keys.
KeyOrderings(rows, key) ==
    IF rows = <<>> THEN {<<>>}
    ELSE UNION {Insertions(Head(rows), t, key) : t \in KeyOrderings(Tail(rows), key)}

\* df.sort_values(by): the rows with a key in ascending order, then the rows
\* whose key is NaN, these in their input order (na_position="last").
sort_values(df, by) ==
    LET keyed == SelectSeq(df, LAMBDA r : notna(r[by]))
        nans == SelectSeq(df, LAMBDA r : isna(r[by]))
    IN {t \o nans : t \in KeyOrderings(keyed, by)}

\* create_dataframe: the frames its sort can return.
create_dataframe(data_list) ==
    LET df == DataFrame(data_list)
    IN IF "billing_date" \in Columns(df) THEN sort_values(df, "billing_date")
       ELSE {df}

\* df[c].notna().any()
notna_any(df, c) == \E k \in DOMAIN df : notna(df[k][c])

\* Column c holds a str among its cells: an object column no arithmetic or
\* reduction (mean, max, std, /) can work on; each raises TypeError.
HasStr(df, c) == \E k \in DOMAIN df : IsStr(df[k][c])

\* Column c is a float64 column: floats and NaN, not all NaN.
IsFloatColumn(df, c) == notna_any(df, c) /\ ~HasStr(df, c)

\* ------------------------------------------------------------ derived data

\* One cell of df["total_cost"] / df["total_usage"] (float64 division).
Divide(cost, usage) ==
    IF isna(cost) \/ isna(usage) THEN None
    ELSE IF usage.num = 0 THEN (IF cost.num = 0 THEN None ELSE Inf)
    ELSE Float(cost.num * usage.den, cost.den * usage.num)

RECURSIVE CommonDen(_)
\* A common denominator of the floats of a column.
CommonDen(col) ==
    IF col = <<>> THEN 1
    ELSE IF IsFloat(Head(col)) THEN LCM(Head(col).den, CommonDen(Tail(col)))
    ELSE CommonDen(Tail(col))

\* The floats of a column as integers over its common denominator, NaN kept:
\* the anomaly test is unchanged by a common scale.
Scaled(col) ==
    LET D == CommonDen(col)
    IN [k \in DOMAIN col |->
          IF IsFloat(col[k]) THEN Float(col[k].num * (D \div col[k].den), 1) ELSE None]

RECURSIVE Sum(_)
Sum(col) ==
    IF col = <<>> THEN 0
    ELSE (IF IsFloat(Head(col)) THEN Head(col).num ELSE 0) + Sum(Tail(col))

RECURSIVE SumSq(_)
SumSq(col) ==
    IF col = <<>> THEN 0
    ELSE (IF IsFloat(Head(col)) THEN Head(col).num * Head(col).num ELSE 0)
         + SumSq(Tail(col))

Count(col) == Cardinality({k \in DOMAIN col : IsFloat(col[k])})

\* Series.mean() of a scaled column: NaN skipped, NaN when nothing is left.
series_mean(col) ==
    IF Count(col) = 0 THEN None ELSE [kind |-> "frac", num |-> Sum(col), den |-> Count(col)]

\* Series.std() of a scaled column, as its square: pandas' default ddof=1, so
\* the divisor is n - 1, and NaN with fewer than two values.
series_std(col) ==
    LET n == Count(col)
    IN IF n < 2 THEN None
       ELSE [kind |-> "frac", num |-> n * SumSq(col) - Sum(col) * Sum(col),
             den |-> n * (n - 1)]

\* The anomaly test with the factor 2 left out.
AnomalyCellOneSigma(u, mean_usage, std_usage) ==
    IF isna(u) \/ isna(mean_usage) \/ isna(std_usage) THEN FALSE
    ELSE LET dev == u.num * mean_usage.den - mean_usage.num
         IN dev * dev * std_usage.den
              > std_usage.num * mean_usage.den * mean_usage.den

\* The anomaly test written as "not within two deviations", which is True
\* where the deviation is NaN.
AnomalyCellNotWithin(u, mean_usage, std_usage) ==
    IF isna(u) THEN FALSE
    ELSE IF isna(mean_usage) \/ isna(std_usage) THEN TRUE
    ELSE LET dev == u.num * mean_usage.den - mean_usage.num
         IN ~(dev * dev * std_usage.den
                <= 4 * std_usage.num * mean_usage.den * mean_usage.den)

\* One cell of abs(df["total_usage"] - mean_usage) > 2 * std_usage; a
\* comparison with NaN on either side is False.  With std given as its
\* square v: |u - m| > 2 sqrt(v) iff (u - m)^2 > 4 v.
AnomalyCell(u, mean_usage, std_usage) ==
    IF isna(u) \/ isna(mean_usage) \/ isna(std_usage) THEN FALSE
    ELSE LET dev == u.num * mean_usage.den - mean_usage.num
         IN dev * dev * std_usage.den
              > 4 * std_usage.num * mean_usage.den * mean_usage.den

\* The is_anomaly column plot_usage_anomaly adds.
AnomalyColumn(df) ==
    LET col == Scaled([k \in DOMAIN df |-> df[k]["total_usage"]])
        mean_usage == series_mean(col)
        std_usage == series_std(col)
    IN [k \in DOMAIN df |-> AnomalyCell(col[k], mean_usage, std_usage)]

\* The blended_rate column plot_blended_rate adds.
BlendedColumn(df) ==
    [k \in DOMAIN df |-> Divide(df[k]["total_cost"], df[k]["total_usage"])]

\* ------------------------------------------------------------------ inputs

\* A text in which the patterns find these captures (the three free-text
\* fields account_number, service_address and due_date unmatched).
BillText(usage, cost, period, energy, taxes, fees) ==
    [empty |-> FALSE,
     m |-> [f \in FieldNames |->
              CASE f = "total_usage" -> usage
                [] f = "total_cost" -> cost
                [] f = "billing_period" -> period
                [] f = "energy_charge" -> energy
                [] f = "taxes" -> taxes
                [] f = "fees" -> fees
                [] OTHER -> NoMatch]]

\* A readable PDF with this text, and a PDF fitz.open raises on.
Pdf(text) == [corrupt |-> FALSE, text |-> text]

CorruptPdf == [corrupt |-> TRUE, text |-> EmptyText]

kWh == <<"k", "W", "h">>

Side(m, d, y) == m \o <<"/">> \o d \o <<"/">> \o y

Period(a, sep, b) == a \o sep \o b

Dash == <<" ", "-", " ">>

Jan2023 == Period(Side(<<"0","1">>, <<"0","1">>, <<"2","0","2","3">>), Dash,
                  Side(<<"0","1">>, <<"3","1">>, <<"2","0","2","3">>))

Feb2023 == Period(Side(<<"2">>, <<"1">>, <<"2","0","2","3">>), Dash,
                  Side(<<"2">>, <<"2","8">>, <<"2","0","2","3">>))

Mar2023 == Period(Side(<<"3">>, <<"1">>, <<"2","0","2","3">>), <<"-">>,
                  Side(<<"3">>, <<"3","1">>, <<"2","0","2","3">>))

Jan23 == Period(Side(<<"1">>, <<"1">>, <<"2","3">>), Dash,
                Side(<<"1">>, <<"3","1">>, <<"2","3">>))

\* The bills of the mixed pool.
Bill100 ==
    Pdf(BillText(UsageHit(<<"1","0","0">>, kWh), Hit(<<"2","0">>), Hit(Jan2023),
                 Hit(<<"1","5">>), Hit(<<"3">>), Hit(<<"2">>)))

Bill102 ==
    Pdf(BillText(UsageHit(<<"1","0","2">>, kWh), Hit(<<"2","1">>), Hit(Jan2023),
                 Hit(<<"1","5">>), Hit(<<"3">>), Hit(<<"2">>)))

Bill500 ==
    Pdf(BillText(UsageHit(<<"5","0","0">>, kWh), Hit(<<"1",",","0","9","0",".","5">>),
                 Hit(Feb2023), Hit(<<"8","0">>), Hit(<<"9">>), Hit(<<"1">>)))

BillZeroUsage ==
    Pdf(BillText(UsageHit(<<"0">>, kWh), Hit(<<"5">>), Hit(Mar2023),
                 Hit(<<"4">>), Hit(<<"1">>), Hit(<<"0">>)))

BillNoPeriod ==
    Pdf(BillText(UsageHit(<<"7">>, kWh), Hit(<<"7">>), NoMatch,
                 Hit(<<"5">>), Hit(<<"1">>), Hit(<<"1">>)))

BillShortYear ==
    Pdf(BillText(UsageHit(<<"5","0">>, kWh), Hit(<<"9">>), Hit(Jan23),
                 Hit(<<"8">>), NoMatch, NoMatch))

BillCommaUsage ==
    Pdf(BillText(UsageHit(<<",">>, kWh), Hit(<<"5">>), Hit(Jan2023),
                 Hit(<<"4">>), Hit(<<"1">>), Hit(<<"0">>)))

NoFieldsPdf == Pdf(BillText(NoMatch, NoMatch, NoMatch, NoMatch, NoMatch, NoMatch))

BlankPdf == Pdf(EmptyText)

\* Documents of an upload: unreadable, without text, without fields, and
\* bills with equal, distinct, unparseable and missing periods, a zero usage
\* and a usage of commas only.
BillPool ==
    {CorruptPdf, BlankPdf, NoFieldsPdf, Bill100, Bill102, Bill500,
     BillZeroUsage, BillNoPeriod, BillShortYear, BillCommaUsage}

\* Bills of one meter: a usage, a cost, and a period of their own each.
MeterBill(u, day) ==
    Pdf(BillText(UsageHit(<<u>>, kWh), Hit(<<"5">>),
                 Hit(Period(Side(<<"1">>, <<"1">>, <<"2","0","2","3">>), Dash,
                            Side(<<"1">>, <<day>>, <<"2","0","2","3">>))),
                 Hit(<<"3">>), Hit(<<"1">>), Hit(<<"1">>)))

MeterPool ==
    {MeterBill("1", "1"), MeterBill("2", "2"), MeterBill("3", "3"), MeterBill("6", "6")}

RECURSIVE SeqsUpTo(_, _)
\* The sequences over S of length at most n.
SeqsUpTo(S, n) ==
    IF n = 0 THEN {<<>>}
    ELSE LET shorter == SeqsUpTo(S, n - 1)
         IN shorter \cup {Append(t, c) : t \in shorter, c \in S}

CaptureAlphabet == {"0", "5", ",", "."}

\* The numeric captures of length at most n over the alphabet.
NumericCaptures(n) ==
    {t \in SeqsUpTo(CaptureAlphabet, n) : MatchesNumericPattern(t)}

NumericMatches(n) == {NoMatch} \cup {Hit(t) : t \in NumericCaptures(n)}

UsageMatches(n) == {NoMatch} \cup {UsageHit(t, kWh) : t \in NumericCaptures(n)}

\* The sides of a billing period: a month, a day and a year of 2 to 4 digits.
PeriodSides ==
    {Side(m, d, y) : m \in {<<"2">>, <<"1","3">>}, d \in {<<"2","8">>, <<"2","9">>},
                     y \in {<<"2","3">>, <<"2","0","2","3">>, <<"2","0","2","4">>}}

PeriodTexts ==
    {Period(a, sep, b) : a \in PeriodSides, sep \in {Dash, <<"-">>}, b \in PeriodSides}

\* The billing periods among them that the pattern captures (all of them).
PeriodCaptures == {p \in PeriodTexts : MatchesPeriodPattern(p)}

\* One-bill uploads for the coercions of clean_data: every pair of usage
\* and cost captures of length at most n, every such capture in each
\* breakdown field, beside shorter captures in the other fields; and every
\* billing period.
CleanPool(n) ==
    {Pdf(BillText(u, c, NoMatch, o, o, o)) :
        u \in UsageMatches(n), c \in NumericMatches(n),
        o \in NumericMatches(n - 1)}
    \cup
    {Pdf(BillText(UsageHit(o.g1, kWh), o,
                  NoMatch,
                  IF f = "energy_charge" THEN x ELSE o,
                  IF f = "taxes" THEN x ELSE o,
                  IF f = "fees" THEN x ELSE o)) :
        f \in cost_cols, x \in NumericMatches(n),
        o \in {Hit(t) : t \in NumericCaptures(n - 1)}}
    \cup
    {Pdf(BillText(UsageHit(<<"5">>, kWh), Hit(<<"5">>), Hit(p),
                  Hit(<<"5">>), Hit(<<"5">>), Hit(<<"5">>))) : p \in PeriodCaptures}

\* ------------------------------------------------------------ the dashboard

WarnTrend == "Insufficient data for Usage vs Cost Trend."

WarnBreakdown == "Insufficient cost breakdown data."

WarnBlended == "Insufficient data for Blended Rate."

WarnAnomaly == "Insufficient data for Usage Anomaly Detection."

WarnMissing == "Some key data (Usage or Cost) is missing from one or more bills."

NotComputed == [computed |-> FALSE, col |-> <<>>]

Computed(col) == [computed |-> TRUE, col |-> col]

\* The guard shared by plot_usage_vs_cost_trend and plot_blended_rate.
HasUsageAndCost(d) ==
    /\ "billing_date" \in Columns(d)
    /\ notna_any(d, "total_usage")
    /\ notna_any(d, "total_cost")

\* display_extracted_data raises: its summary takes the mean and the max of
\* the usage and cost columns.
SummaryRaises(d) ==
    /\ notna_any(d, "total_usage") /\ notna_any(d, "total_cost")
    /\ (HasStr(d, "total_usage") \/ HasStr(d, "total_cost"))

\* plot_usage_vs_cost_trend raises: it takes the max of both columns.
TrendRaises(d) ==
    HasUsageAndCost(d) /\ (HasStr(d, "total_usage") \/ HasStr(d, "total_cost"))

BreakdownGuard(d) ==
    "billing_date" \in Columns(d) /\ \E c \in cost_cols : notna_any(d, c)

\* Whether plot_cost_breakdown raises.  px.bar over three float64 columns
\* draws; over a column that is not float64 (all NaN, or holding a str) the
\* outcome depends on the pandas and plotly at hand, so both are possible.
BreakdownOutcomes(d) ==
    IF BreakdownGuard(d) /\ \E c \in cost_cols : ~IsFloatColumn(d, c)
    THEN {FALSE, TRUE} ELSE {FALSE}

\* plot_blended_rate raises: the division meets a str.
BlendedRaises(d) ==
    HasUsageAndCost(d) /\ (HasStr(d, "total_usage") \/ HasStr(d, "total_cost"))

AnomalyGuard(d) == "billing_date" \in Columns(d) /\ notna_any(d, "total_usage")

\* plot_usage_anomaly raises: mean and std meet a str.
AnomalyRaises(d) == AnomalyGuard(d) /\ HasStr(d, "total_usage")

\* Lines 286-301 of main over the frame d, breakdownRaises telling whether
\* plot_cost_breakdown raises: what the run shows, up to the first call that
\* raises (main catches nothing, the run ends there).
Dashboard(d, breakdownRaises) ==
    LET at2 == ~SummaryRaises(d)
        at3 == at2 /\ ~TrendRaises(d)
        at4 == at3 /\ ~breakdownRaises
        at5 == at4 /\ ~BlendedRaises(d)
        at6 == at5 /\ ~AnomalyRaises(d)
    IN [df |-> d,
        raised |-> ~at6,
        blended_rate |->
            IF at4 /\ HasUsageAndCost(d) /\ ~BlendedRaises(d)
            THEN Computed(BlendedColumn(d)) ELSE NotComputed,
        is_anomaly |->
            IF at5 /\ AnomalyGuard(d) /\ ~AnomalyRaises(d)
            THEN Computed(AnomalyColumn(d)) ELSE NotComputed,
        warnings |->
            {w \in {WarnTrend} : at2 /\ ~HasUsageAndCost(d)}
            \cup {w \in {WarnBreakdown} : at3 /\ ~BreakdownGuard(d)}
            \cup {w \in {WarnBlended} : at4 /\ ~HasUsageAndCost(d)}
            \cup {w \in {WarnAnomaly} : at5 /\ ~AnomalyGuard(d)}
            \cup {w \in {WarnMissing} :
                    at6 /\ (~notna_any(d, "total_usage") \/ ~notna_any(d, "total_cost"))}]

\* ------------------------------------------------------------------- state

VARIABLES
    bill_data,       \* st.session_state.bill_data: the cleaned records
    pc,              \* "ready": no run under way; "loop", "render": inside main
    uploaded_files,  \* the uploader's files for the run under way or last ended
    i,               \* files the loop of main has gone through
    file_errors,     \* indices of the files st.error named as unreadable
    batch_error,     \* "No valid data extracted from uploaded files." shown
    info,            \* "Please upload PDFs ..." shown
    df,              \* the frame create_dataframe returned
    blended_rate,    \* the column plot_blended_rate added, if it did
    is_anomaly,      \* the column plot_usage_anomaly added, if it did
    warnings,        \* the st.warning texts of the run
    raised,          \* an exception left main
    records_before   \* history: the size of the collection when the run began

vars ==
    <<bill_data, pc, uploaded_files, i, file_errors, batch_error, info, df,
      blended_rate, is_anomaly, warnings, raised, records_before>>

\* A page with nothing shown yet.
Cleared ==
    /\ file_errors' = {}
    /\ batch_error' = FALSE
    /\ df' = <<>>
    /\ blended_rate' = NotComputed
    /\ is_anomaly' = NotComputed
    /\ warnings' = {}
    /\ raised' = FALSE

Init ==
    /\ bill_data = <<>>
    /\ pc = "ready"
    /\ uploaded_files = <<>>
    /\ i = 0
    /\ file_errors = {}
    /\ batch_error = FALSE
    /\ info = FALSE
    /\ df = <<>>
    /\ blended_rate = NotComputed
    /\ is_anomaly = NotComputed
    /\ warnings = {}
    /\ raised = FALSE
    /\ records_before = 0

\* s without its k-th element.
RemoveAt(s, k) == SubSeq(s, 1, k - 1) \o SubSeq(s, k + 1, Len(s))

\* What the file uploader can hold at the next run, holding cur now: the
\* same files (a rerun), one file more, or one file fewer.
NextUploads(cur, pool, most) ==
    {cur}
    \cup {Append(cur, f) : f \in {g \in pool : Len(cur) < most}}
    \cup {RemoveAt(cur, k) : k \in DOMAIN cur}

\* A run that leaves the collection of the run before in place.
BeginRunKeeping(pool, most) ==
    /\ pc = "ready"
    /\ \E files \in NextUploads(uploaded_files, pool, most) :
          /\ files # <<>>
          /\ uploaded_files' = files
    /\ bill_data' = bill_data
    /\ records_before' = Len(bill_data)
    /\ i' = 0
    /\ pc' = "loop"
    /\ info' = FALSE
    /\ Cleared

\* A run of main with files in the uploader (lines 263-272): the collection
\* is emptied before the loop.
BeginRun(pool, most) ==
    /\ pc = "ready"
    /\ \E files \in NextUploads(uploaded_files, pool, most) :
          /\ files # <<>>
          /\ uploaded_files' = files
    /\ bill_data' = <<>>
    /\ records_before' = Len(bill_data)
    /\ i' = 0
    /\ pc' = "loop"
    /\ info' = FALSE
    /\ Cleared

\* One pass of the loop of main (lines 274-283).
ProcessFile ==
    /\ pc = "loop"
    /\ LET text == extract_text_from_pdf(uploaded_files[i + 1])
       IN IF text.empty
          THEN /\ file_errors' = file_errors \cup {i + 1}
               /\ bill_data' = bill_data
          ELSE /\ bill_data' = Append(bill_data, clean_data(extract_data(text)))
               /\ file_errors' = file_errors
    /\ i' = i + 1
    /\ pc' = IF i + 1 = Len(uploaded_files) THEN "render" ELSE "loop"
    /\ UNCHANGED <<uploaded_files, batch_error, info, df, blended_rate,
                   is_anomaly, warnings, raised, records_before>>

\* The end of the run (lines 285-303): the dashboard, or the batch error.
Render ==
    /\ pc = "render"
    /\ pc' = "ready"
    /\ IF bill_data # <<>>
       THEN /\ \E d \in create_dataframe(bill_data) : \E b \in BreakdownOutcomes(d) :
                 LET shown == Dashboard(d, b)
                 IN /\ df' = shown.df
                    /\ blended_rate' = shown.blended_rate
                    /\ is_anomaly' = shown.is_anomaly
                    /\ warnings' = shown.warnings
                    /\ raised' = shown.raised
            /\ batch_error' = FALSE
       ELSE /\ batch_error' = TRUE
            /\ UNCHANGED <<df, blended_rate, is_anomaly, warnings, raised>>
    /\ UNCHANGED <<bill_data, uploaded_files, i, file_errors, info, records_before>>

\* A run of main with no file in the uploader (lines 304-305): the first
\* load of the page, or the run after the last file is taken out.
NoUpload ==
    /\ pc = "ready"
    /\ Len(uploaded_files) <= 1
    /\ uploaded_files' = <<>>
    /\ i' = 0
    /\ pc' = "ready"
    /\ info' = TRUE
    /\ Cleared
    /\ UNCHANGED <<bill_data, records_before>>

UploadBills == BeginRun(BillPool, MaxFiles)

UploadMeterBills == BeginRun(MeterPool, MaxSeries)

UploadOneBill == BeginRun(CleanPool(MaxCaptureLen), 1)

Next == UploadBills \/ ProcessFile \/ Render \/ NoUpload

Spec == Init /\ [][Next]_vars

NextSeries == UploadMeterBills \/ ProcessFile \/ Render \/ NoUpload

SpecSeries == Init /\ [][NextSeries]_vars

NextClean == UploadOneBill \/ ProcessFile \/ Render \/ NoUpload

SpecClean == Init /\ [][NextClean]_vars

\* ------------------------------------------------------------------ claims

\* An upload run has ended: its page is the one shown.
RunEnded == pc = "ready" /\ uploaded_files # <<>>

\* The document has text to give: it can be read and its text is not "".
ProducesText(f) == ~f.corrupt /\ ~f.text.empty

\* The number a float record stands for equals n.
IsNumber(v, n) == IsFloat(v) /\ v.num = n * v.den

\* C1: every record that reaches plot_blended_rate has an absent blended_rate
\* when its total_usage is absent or zero, and total_cost / total_usage when
\* its total_usage is greater than zero (here: in runs no exception ends).
C1_NoDivisionByZero ==
    (RunEnded /\ ~raised /\ blended_rate.computed) =>
        \A k \in DOMAIN df :
            LET usage == df[k]["total_usage"]
                cost == df[k]["total_cost"]
                rate == blended_rate.col[k]
            IN /\ (isna(usage) \/ IsNumber(usage, 0)) => isna(rate)
               /\ (IsFloat(usage) /\ usage.num > 0 /\ IsFloat(cost)) =>
                     /\ IsFloat(rate)
                     /\ rate.num * cost.den * usage.num = rate.den * cost.num * usage.den

\* The collection is the scenario's: three records, of usage 100, 102 and 500.
UsageScenario ==
    /\ RunEnded /\ Len(df) = 3
    /\ \E a, b, c \in DOMAIN df :
          /\ {a, b, c} = DOMAIN df
          /\ IsNumber(df[a]["total_usage"], 100)
          /\ IsNumber(df[b]["total_usage"], 102)
          /\ IsNumber(df[c]["total_usage"], 500)

\* C2 as stated: of three records of usage 100, 102 and 500 the 500-usage
\* record is flagged anomalous and the other two are not.
C2_Original ==
    UsageScenario =>
        /\ is_anomaly.computed
        /\ \A k \in DOMAIN df : is_anomaly.col[k] <=> IsNumber(df[k]["total_usage"], 500)

\* C2 amended: of three records of usage 100, 102 and 500, in any order, no
\* record is flagged anomalous.
C2_NoneFlagged ==
    (UsageScenario /\ is_anomaly.computed) =>
        \A k \in DOMAIN df : ~is_anomaly.col[k]

C2_Witness ==
    /\ UsageScenario /\ is_anomaly.computed
    /\ \A k \in DOMAIN df : ~is_anomaly.col[k]
    /\ IsNumber(bill_data[1]["total_usage"], 500)

\* |u - mean| > 2 * stddev over the usages us (integers, a sequence), with
\* the population standard deviation: n^2 (u - mean)^2 > 4 n^2 variance.
RECURSIVE PlainSum(_)
PlainSum(us) == IF us = <<>> THEN 0 ELSE Head(us) + PlainSum(Tail(us))

PopulationAnomaly(u, us) ==
    LET n == Len(us)
        total == PlainSum(us)
        squares == PlainSum([k \in DOMAIN us |-> us[k] * us[k]])
    IN (n * u - total) * (n * u - total) > 4 * (n * squares - total * total)

\* C3: is_anomaly is |usage - mean| > 2 * stddev with the mean and the
\* population standard deviation (divisor n) of the collection's usages.
C3_PopulationDeviation ==
    (RunEnded /\ is_anomaly.computed) =>
        LET us == [k \in DOMAIN df |-> df[k]["total_usage"].num]
        IN \A k \in DOMAIN df : is_anomaly.col[k] <=> PopulationAnomaly(us[k], us)

\* Records of the frame with a total_usage.
UsageBearing == {k \in DOMAIN df : notna(df[k]["total_usage"])}

\* C4: with fewer than two usage-bearing records in the collection, every
\* is_anomaly that is computed is false.
C4_FewRecordsNoAnomaly ==
    (RunEnded /\ Cardinality(UsageBearing) < 2 /\ is_anomaly.computed) =>
        \A k \in DOMAIN df : ~is_anomaly.col[k]

C4_Witness ==
    /\ RunEnded /\ is_anomaly.computed
    /\ Cardinality(UsageBearing) = 1
    /\ Len(df) >= 2
    /\ \A k \in DOMAIN df : ~is_anomaly.col[k]

RECURSIVE StableByDate(_)
\* The rows with a billing_date in ascending order, equal dates in input order.
StableByDate(rows) ==
    IF rows = <<>> THEN <<>>
    ELSE LET last == rows[Len(rows)]
             t == StableByDate(SubSeq(rows, 1, Len(rows) - 1))
             p == Cardinality({j \in DOMAIN t :
                     DateOrd(t[j]["billing_date"]) <= DateOrd(last["billing_date"])})
         IN SubSeq(t, 1, p) \o <<last>> \o SubSeq(t, p + 1, Len(t))

\* The frame in input order, a missing billing_date column filled with NaN.
InputRows ==
    [k \in DOMAIN bill_data |->
        [c \in KeysOf(bill_data) \cup {"billing_date"} |-> Get(bill_data[k], c)]]

\* C5: create_dataframe returns the records in ascending order of
\* billing_date, those without one last, equal and absent dates in input
\* order; sorting its result again changes nothing.
C5_StableSort ==
    (RunEnded /\ bill_data # <<>>) =>
        /\ [k \in DOMAIN df |-> [c \in DOMAIN InputRows[k] |-> Get(df[k], c)]]
             = StableByDate(SelectSeq(InputRows, LAMBDA r : notna(r["billing_date"])))
               \o SelectSeq(InputRows, LAMBDA r : isna(r["billing_date"]))
        /\ "billing_date" \in Columns(df) => sort_values(df, "billing_date") = {df}

\* The cleaned records of the files that have text to give, in upload order.
RECURSIVE RecordsOf(_)
RecordsOf(files) ==
    IF files = <<>> THEN <<>>
    ELSE (IF ProducesText(Head(files))
          THEN <<clean_data(extract_data(Head(files).text))>> ELSE <<>>)
         \o RecordsOf(Tail(files))

C7_MissingDataWarned ==
    (RunEnded /\ ~raised) =>
        \A j \in DOMAIN uploaded_files :
            LET f == uploaded_files[j]
                r == clean_data(extract_data(f.text))
            IN (ProducesText(f) /\ isna(r["total_usage"]) /\ isna(r["total_cost"])) =>
                  /\ \E k \in DOMAIN bill_data : bill_data[k] = r
                  /\ WarnMissing \in warnings

\* The files among the first n that have no text to give.
Unreadable(n) == {k \in 1..n : ~ProducesText(uploaded_files[k])}

\* C8: a document whose extraction raises and one whose text is "" are each
\* reported and add no record, every other document adds one, and the batch
\* error is shown exactly when no document of the run had text.
C8_UnreadableSkipped ==
    uploaded_files # <<>> =>
        /\ file_errors = Unreadable(i)
        /\ Len(bill_data) = i - Cardinality(Unreadable(i))
        /\ RunEnded =>
              /\ i = Len(uploaded_files)
              /\ batch_error <=> Unreadable(i) = DOMAIN uploaded_files

C8_Witness ==
    /\ RunEnded
    /\ \E a, b, c \in DOMAIN uploaded_files :
          /\ uploaded_files[a].corrupt
          /\ ~uploaded_files[b].corrupt /\ uploaded_files[b].text.empty
          /\ ProducesText(uploaded_files[c])
    /\ file_errors = Unreadable(Len(uploaded_files))
    /\ Len(bill_data) = 1
    /\ ~batch_error

\* C9: clean_data leaves in every decimal field a float equal to the captured
\* numeral or the absent value: never a string, the empty string that a
\* capture of commas leaves included, and never zero for an unparseable one.
C9_DecimalOrAbsent ==
    (RunEnded /\ Len(uploaded_files) = 1 /\ Len(bill_data) = 1) =>
        \A f \in DecimalFields :
            LET cap == uploaded_files[1].text.m[f]
                numeral == RemoveCommas(cap.g1)
                cleaned == bill_data[1][f]
            IN /\ ~IsStr(cleaned)
               /\ (cap.hit /\ ParsesAsFloat(numeral)) => cleaned = FloatOf(numeral)
               /\ ~(cap.hit /\ ParsesAsFloat(numeral)) => isna(cleaned)

\* C10: for a billing_period "A - B", billing_date is absent when A or B
\* fails to parse as MM/DD/YYYY and the date of B when both parse; the raw
\* billing_period is kept as captured.
C10_BothSidesParsed ==
    (RunEnded /\ Len(uploaded_files) = 1 /\ Len(bill_data) = 1
       /\ uploaded_files[1].text.m["billing_period"].hit) =>
        LET raw == uploaded_files[1].text.m["billing_period"].g1
            A == Strip(Split(raw, "-")[1])
            B == Strip(Split(raw, "-")[2])
            r == bill_data[1]
        IN /\ r["billing_period"] = Str(raw)
           /\ (~StrptimeOk(A) \/ ~StrptimeOk(B)) => isna(r["billing_date"])
           /\ (StrptimeOk(A) /\ StrptimeOk(B)) => r["billing_date"] = StrptimeDate(B)

====
